---- MODULE Spec2Model ----
(***************************************************************************)
(* Airline hub-and-spoke demos (demo-dqm.py, demo_cqm.py).                 *)
(*                                                                         *)
(* Both scripts build a quadratic model of the hub location problem, hand  *)
(* it to a hosted solver, score and order the returned candidates, render  *)
(* one frame per kept candidate, assemble the frames into a GIF and delete *)
(* the frames.                                                             *)
(*                                                                         *)
(* Numbers.  The scripts compute in floating point; the model computes in  *)
(* exact integers.  The flow matrix W of the model holds the numerators of *)
(* the normalised flow (read_inputs divides every entry by the total), the *)
(* discount is the fraction a / ADen, and every cost, bias and energy of   *)
(* the model is the program's value multiplied by Unit(W) = ADen * total.  *)
(***************************************************************************)
EXTENDS Integers, Sequences, FiniteSets, TLC

VARIABLES
    path,        \* which script runs: "dqm" (demo-dqm.py) or "cqm" (demo_cqm.py)
    pc,          \* position in the script's __main__
    n,           \* number of cities (rows of flow.csv)
    W,           \* flow matrix, W[i][j]
    C,           \* cost matrix, C[i][j]
    p,           \* number of hubs
    a,           \* numerator of the hub-hub discount (a / ADen)
    model,       \* the DQM or CQM handed to the solver
    ss,          \* list(sampleset.data(['sample'])) (cqm: after the feasibility filter)
    sample_dict, \* cqm: index -> decoded city -> hub mapping
    cost_dict,   \* index -> cost
    ordered,     \* keys of ordered_samples, in order
    pos,         \* how many entries of ordered_samples the loop has consumed
    prev_val,    \* cost of the entry consumed last (unbound before the first)
    counter,     \* frames rendered so far
    filenames,   \* frame files appended by visualize_results, in order
    frames,      \* what each call of visualize_results was given
    disk         \* files on disk

vars == <<path, pc, n, W, C, p, a, model, ss, sample_dict, cost_dict, ordered,
          pos, prev_val, counter, filenames, frames, disk>>

---------------------------------------------------------------------------
(* Bounds of the model and constants of the program *)

MaxSamples == 3          \* candidates returned by the solver
CityCounts == {1, 2}     \* numbers of cities
FlowVals == {0, 1}       \* entries of the flow matrix (numerators)
CostVals == {0, 1}       \* entries of the cost matrix
ANum == 2                \* a = 0.4 = ANum / ADen
ADen == 5
Discounts == {ANum}      \* numerators of the discount
WideCityCounts == {3}    \* numbers of cities of the build-only runs
MaxLegs == 1             \* non-zero entries of a matrix of the build-only runs
gamma1 == 30
gamma3 == 20

None == "None"

Cities(nn) == 0 .. (nn - 1)

---------------------------------------------------------------------------
(* Loops and sums *)

RECURSIVE ForRange(_, _, _, _)
\* for k in range(lo, hi): acc = op(acc, k).  Each pass is evaluated (next = next)
\* before the next one starts, as the loop does.
ForRange(op(_, _), acc, lo, hi) ==
    IF lo >= hi THEN acc
    ELSE LET next == op(acc, lo)
         IN  IF next = next THEN ForRange(op, next, lo + 1, hi) ELSE next

\* sum of term(i, j) for i in range(n) for j in range(lo(i), n)
SumPairs(term(_, _), lo(_), nn) ==
    ForRange(LAMBDA s, i: ForRange(LAMBDA t, j: t + term(i, j), s, lo(i), nn),
             0, 0, nn)

\* np.sum(np.sum(W)), the denominator of the normalised flow
Total(Wm, nn) == SumPairs(LAMBDA i, j: Wm[i][j], LAMBDA i: 0, nn)

\* the model's integer for the program's 1.0
Unit(Wm, nn) == ADen * Total(Wm, nn)

---------------------------------------------------------------------------
(* dimod.DiscreteQuadraticModel: linear biases per (variable, case) and    *)
(* quadratic biases per unordered pair of cases of two distinct variables  *)

QKey(u, uc, v, vc) == IF u < v THEN <<u, uc, v, vc>> ELSE <<v, vc, u, uc>>

EmptyDQM(nn) ==
    [lin  |-> [i \in Cities(nn) |-> [k \in Cities(nn) |-> 0]],
     quad |-> [q \in {<<u, uc, v, vc>> \in
                        Cities(nn) \X Cities(nn) \X Cities(nn) \X Cities(nn) : u < v}
               |-> 0]]

get_linear_case(dqm, v, case) == dqm.lin[v][case]

set_linear_case(dqm, v, case, bias) ==
    [dqm EXCEPT !.lin[v][case] = bias]

get_quadratic_case(dqm, u, uc, v, vc) == dqm.quad[QKey(u, uc, v, vc)]

set_quadratic_case(dqm, u, uc, v, vc, bias) ==
    [dqm EXCEPT !.quad[QKey(u, uc, v, vc)] = bias]

\* dqm.energy(sample): the biases of the chosen cases
DqmEnergy(dqm, s, nn) ==
    SumPairs(LAMBDA i, j: IF i = j THEN 0
                          ELSE get_quadratic_case(dqm, i, s[i], j, s[j]),
             LAMBDA i: i + 1, nn)
    + ForRange(LAMBDA t, i: t + get_linear_case(dqm, i, s[i]), 0, 0, nn)

---------------------------------------------------------------------------
(* build_dqm *)

\* body of the objective loop for one (i, j)
ObjectiveStep(dqm, Wm, Cm, nn, aa, i, j) ==
    LET d1 == ForRange(LAMBDA d, k:
                         set_linear_case(d, i, k, ADen * Cm[i][k] * Wm[i][j]),
                       dqm, 0, nn)
        d2 == ForRange(LAMBDA d, m:
                         set_linear_case(d, j, m,
                             get_linear_case(d, j, m) + ADen * Cm[j][m] * Wm[i][j]),
                       d1, 0, nn)
    IN  ForRange(LAMBDA d, k:
                   ForRange(LAMBDA e, m:
                              IF i # j
                              THEN set_quadratic_case(e, i, k, j, m,
                                                      aa * Cm[k][m] * Wm[i][j])
                              ELSE e,
                            d, 0, nn),
                 d2, 0, nn)

\* "add objective": the model after the objective loop
DqmObjective(Wm, Cm, nn, aa) ==
    ForRange(LAMBDA d, i:
               ForRange(LAMBDA e, j: ObjectiveStep(e, Wm, Cm, nn, aa, i, j),
                        d, 0, nn),
             EmptyDQM(nn), 0, nn)

\* "constraint 1"
DqmConstraint1(dqm, nn, unit) ==
    ForRange(LAMBDA d, i:
               ForRange(LAMBDA e, j:
                          LET e1 == set_linear_case(e, i, j,
                                        get_linear_case(e, i, j) + 1 * gamma1 * unit)
                          IN  IF i # j
                              THEN set_quadratic_case(e1, i, j, j, j,
                                       get_quadratic_case(e1, i, j, j, j)
                                         - 1 * gamma1 * unit)
                              ELSE e1,
                        d, 0, nn),
             dqm, 0, nn)

\* "constraint 3"
DqmConstraint3(dqm, nn, pp, unit) ==
    ForRange(LAMBDA d, j:
               ForRange(LAMBDA e, k:
                          set_quadratic_case(e, j, j, k, k,
                              get_quadratic_case(e, j, j, k, k) + 2 * gamma3 * unit),
                        set_linear_case(d, j, j,
                            get_linear_case(d, j, j) + (1 - 2 * pp) * gamma3 * unit),
                        j + 1, nn),
             dqm, 0, nn)

build_dqm(Wm, Cm, nn, pp, aa) ==
    DqmConstraint3(
        DqmConstraint1(DqmObjective(Wm, Cm, nn, aa), nn, Unit(Wm, nn)),
        nn, pp, Unit(Wm, nn))

---------------------------------------------------------------------------
(* Scoring and layout of one candidate (demo-dqm.py) *)

\* the pair's term of the cost: flow times (leg i, leg j, discounted hub leg)
PairCost(Wm, Cm, aa, s, i, j) ==
    Wm[i][j] * (ADen * Cm[i][s[i]] + ADen * Cm[j][s[j]] + aa * Cm[s[i]][s[j]])

\* get_cost: the value stored in cost_dict[index]
get_cost_value(s, aa, dist_mat, cost_mat, nn) ==
    SumPairs(LAMBDA i, j: PairCost(dist_mat, cost_mat, aa, s, i, j),
             LAMBDA i: i + 1, nn)

get_cost(index, s, aa, dist_mat, cost_mat, cd, nn) ==
    (index :> get_cost_value(s, aa, dist_mat, cost_mat, nn)) @@ cd

\* get_layout_from_sample of demo-dqm.py, city i named i.  s is a dict: a
\* function on the keys it holds.  fault: ss[val] raised KeyError.
LayoutStep(acc, s, key) ==
    IF acc.fault \/ key \notin DOMAIN s THEN acc
    ELSE LET val == s[key]
         IN  IF key = val
             THEN [acc EXCEPT !.hubs = Append(@, key)]
             ELSE IF val \notin DOMAIN s
                  THEN [acc EXCEPT !.legs = Append(@, <<key, val>>), !.fault = TRUE]
                  ELSE [acc EXCEPT !.legs = Append(@, <<key, val>>),
                                   !.valid = IF s[val] # val THEN FALSE ELSE @]

\* get_layout_from_sample without the test of len(hubs) against p
get_layout_ignoring_count(s, pp, nn) ==
    ForRange(LAMBDA r, key: LayoutStep(r, s, key),
             [hubs |-> <<>>, legs |-> <<>>, valid |-> TRUE, fault |-> FALSE], 0, nn)

get_layout_from_sample(s, pp, nn) ==
    LET acc == ForRange(LAMBDA r, key: LayoutStep(r, s, key),
                        [hubs |-> <<>>, legs |-> <<>>, valid |-> TRUE, fault |-> FALSE],
                        0, nn)
    IN  IF acc.fault THEN acc
        ELSE [acc EXCEPT !.valid = IF Len(acc.hubs) # pp THEN FALSE ELSE @]

---------------------------------------------------------------------------
(* dimod quadratic model over the binary variables x_i_j (demo_cqm.py) *)

Vars(nn) == Cities(nn) \X Cities(nn)

Idx(v, nn) == v[1] * nn + v[2]

VarAt(t, nn) == <<t \div nn, t % nn>>

PKey(u, v, nn) == IF Idx(u, nn) < Idx(v, nn) THEN <<u, v>> ELSE <<v, u>>

\* a model over the variables with no bias yet; quad holds the interactions that
\* have been added, keyed by the unordered pair
EmptyQM(nn) == [lin |-> [v \in Vars(nn) |-> 0], quad |-> <<>>]

\* qm + bias * v
AddLinear(qm, v, bias) == [qm EXCEPT !.lin[v] = @ + bias]

\* qm + bias * u * v; a binary variable times itself is the variable
AddProduct(qm, u, v, bias, nn) ==
    IF u = v THEN AddLinear(qm, u, bias)
    ELSE LET key == PKey(u, v, nn)
         IN  IF key \in DOMAIN qm.quad
             THEN [qm EXCEPT !.quad[key] = @ + bias]
             ELSE [qm EXCEPT !.quad = (key :> bias) @@ @]

\* the variables that x sets to 1, in the order of the variables
OnVars(x, nn) ==
    ForRange(LAMBDA on, t: IF x[t \div nn][t % nn] = 1 THEN Append(on, VarAt(t, nn))
                           ELSE on,
             <<>>, 0, nn * nn)

\* the energy of the sample whose variables at 1 are on: the linear biases of
\* those variables and the quadratic biases of the pairs of them
EnergyOn(qm, on) ==
    ForRange(LAMBDA s, t: s + qm.lin[on[t + 1]], 0, 0, Len(on))
    + SumPairs(LAMBDA t, u: IF <<on[t + 1], on[u + 1]>> \in DOMAIN qm.quad
                            THEN qm.quad[<<on[t + 1], on[u + 1]>>]
                            ELSE 0,
               LAMBDA t: t + 1, Len(on))

\* qm.energy(x), x[i][j] the value of x_i_j
QmEnergy(qm, x, nn) == EnergyOn(qm, OnVars(x, nn))

---------------------------------------------------------------------------
(* build_cqm *)

\* np.sum(W, axis=0)[i] and np.sum(W, axis=1)[i]
O_sum(Wm, nn, i) == ForRange(LAMBDA s, r: s + Wm[r][i], 0, 0, nn)

D_sum(Wm, nn, i) == ForRange(LAMBDA s, c: s + Wm[i][c], 0, 0, nn)

\* obj_lin weighted by the outbound flow D_sum alone
obj_lin_outbound_only(Wm, Cm, nn) ==
    ForRange(LAMBDA q, i:
               ForRange(LAMBDA r, k:
                          AddLinear(r, <<i, k>>, ADen * Cm[i][k] * D_sum(Wm, nn, i)),
                        q, 0, nn),
             EmptyQM(nn), 0, nn)

obj_lin(Wm, Cm, nn) ==
    ForRange(LAMBDA q, i:
               ForRange(LAMBDA r, k:
                          AddLinear(r, <<i, k>>,
                              ADen * Cm[i][k] * (O_sum(Wm, nn, i) + D_sum(Wm, nn, i))),
                        q, 0, nn),
             EmptyQM(nn), 0, nn)

\* the quadratic terms, added to qm
obj_quad(qm, Wm, Cm, nn, aa) ==
    ForRange(LAMBDA q1, j:
      ForRange(LAMBDA q2, m:
        ForRange(LAMBDA q3, i:
          ForRange(LAMBDA q4, k:
                     AddProduct(q4, <<j, m>>, <<i, k>>, aa * Wm[i][j] * Cm[k][m], nn),
                   q3, 0, nn),
                 q2, 0, nn),
               q1, 0, nn),
             qm, 0, nn)

\* cqm.add_discrete per city
DiscreteConstraints(nn) ==
    [v \in 1 .. nn |-> {<<v - 1, i>> : i \in Cities(nn)}]

\* "Every leg must connect to a hub": vars[j][j] - vars[i][j] >= 0
\* the hub constraint on the spoke's own diagonal: vars[i][i] - vars[i][j] >= 0
HubConstraint_own_diagonal(nn, i, j) ==
    [lhs |-> AddLinear(AddLinear(EmptyQM(nn), <<i, i>>, 1), <<i, j>>, -1),
     sense |-> ">=", rhs |-> 0]

HubConstraint(nn, i, j) ==
    [lhs |-> AddLinear(AddLinear(EmptyQM(nn), <<j, j>>, 1), <<i, j>>, -1),
     sense |-> ">=", rhs |-> 0]

HubConstraints(nn) ==
    ForRange(LAMBDA cs, i:
               ForRange(LAMBDA ds, j: Append(ds, HubConstraint(nn, i, j)), cs, 0, nn),
             <<>>, 0, nn)

\* "Exactly p hubs required": sum of vars[i][i] == p
NumHubsConstraint(nn, pp) ==
    [lhs |-> ForRange(LAMBDA q, i: AddLinear(q, <<i, i>>, 1), EmptyQM(nn), 0, nn),
     sense |-> "==", rhs |-> pp]

build_cqm(Wm, Cm, nn, pp, aa) ==
    [objective   |-> obj_quad(obj_lin(Wm, Cm, nn), Wm, Cm, nn, aa),
     discrete    |-> DiscreteConstraints(nn),
     constraints |-> Append(HubConstraints(nn), NumHubsConstraint(nn, pp))]

\* one constraint on the sample whose variables at 1 are on
Satisfies(c, on) ==
    IF c.sense = ">=" THEN EnergyOn(c.lhs, on) >= c.rhs
    ELSE EnergyOn(c.lhs, on) = c.rhs

\* the solver's is_feasible: every constraint of the model holds
is_feasible(cqm, x, nn) ==
    /\ \A d \in 1 .. Len(cqm.discrete) :
         Cardinality({v \in cqm.discrete[d] : x[v[1]][v[2]] = 1}) = 1
    /\ \E on \in {OnVars(x, nn)} :
         \A c \in 1 .. Len(cqm.constraints) : Satisfies(cqm.constraints[c], on)

\* sample_dict[index]: the last j with x_i_j = 1, per city i that has one
DecodeSample(x, nn) ==
    ForRange(LAMBDA d, i:
               ForRange(LAMBDA e, j: IF x[i][j] = 1 THEN (i :> j) @@ e ELSE e,
                        d, 0, nn),
             <<>>, 0, nn)

\* get_layout_from_sample of demo_cqm.py
cqm_get_layout_from_sample(s, nn) ==
    ForRange(LAMBDA r, key:
               IF key \notin DOMAIN s THEN r
               ELSE IF key = s[key] THEN [r EXCEPT !.hubs = Append(@, key)]
                    ELSE [r EXCEPT !.legs = Append(@, <<key, s[key]>>)],
             [hubs |-> <<>>, legs |-> <<>>], 0, nn)

---------------------------------------------------------------------------
(* __main__: ranking, rendering, animation, clean-up *)

BoundedSeq(S, m) == UNION {[1 .. k -> S] : k \in 0 .. m}

Matrices(nn, vals) == [Cities(nn) -> [Cities(nn) -> vals]]

\* candidates of the discrete model: one case (a city) per city
Assignments(nn) == [Cities(nn) -> Cities(nn)]

GifFile == <<"airline-hubs.gif", 0>>

BestFile == <<"best_soln_found.png", 0>>

\* a frame file name that leaves the counter out
FrameFile_unnumbered(k) == <<"png", 0>>

\* f'{counter}.png'
FrameFile(k) == <<"png", k>>

\* where a key goes in a list sorted by cost, largest first, equal costs in
\* their original order
\* the insertion of a sort without reverse=True: smallest cost first
SortedInsert_ascending(acc, key, cd) ==
    LET k == Cardinality({t \in 1 .. Len(acc) : cd[acc[t]] <= cd[key]})
    IN  SubSeq(acc, 1, k) \o <<key>> \o SubSeq(acc, k + 1, Len(acc))

SortedInsert(acc, key, cd) ==
    LET k == Cardinality({t \in 1 .. Len(acc) : cd[acc[t]] >= cd[key]})
    IN  SubSeq(acc, 1, k) \o <<key>> \o SubSeq(acc, k + 1, Len(acc))

\* keys of dict(sorted(cost_dict.items(), key=lambda item: item[1], reverse=True))
ordered_samples(cd, m) ==
    ForRange(LAMBDA acc, key: SortedInsert(acc, key, cd), <<>>, 0, m)

\* visualize_results: the frame is saved as <counter>.png and appended
visualize_results(fnames, cnt) == Append(fnames, FrameFile(cnt))

\* the discrete path's test of one ordered entry: the layout is valid and the
\* cost differs from prev_val whenever a frame was rendered before
KeepCandidate(lay, cnt, prev, val) ==
    IF cnt > 0 /\ prev = val THEN FALSE ELSE lay.valid

Init ==
    /\ path \in {"dqm", "cqm"}
    /\ n \in CityCounts
    /\ W \in {m \in Matrices(n, FlowVals) : Total(m, n) > 0}
    /\ C \in Matrices(n, CostVals)
    /\ p \in 1 .. (n + 1)
    /\ a \in Discounts
    /\ pc = "start"
    /\ model = None
    /\ ss = <<>>
    /\ sample_dict = <<>>
    /\ cost_dict = <<>>
    /\ ordered = <<>>
    /\ pos = 0
    /\ prev_val = None
    /\ counter = 0
    /\ filenames = <<>>
    /\ frames = <<>>
    /\ disk = {}

\* demo-dqm.py: dqm = build_dqm(W, C, n, p, a)
BuildDqm ==
    /\ pc = "start" /\ path = "dqm"
    /\ model' = build_dqm(W, C, n, p, a)
    /\ pc' = "built"
    /\ UNCHANGED <<path, n, W, C, p, a, ss, sample_dict, cost_dict, ordered, pos,
                   prev_val, counter, filenames, frames, disk>>

\* demo_cqm.py: cqm = build_cqm(passenger_demand, leg_cost, num_cities, p, a)
BuildCqm ==
    /\ pc = "start" /\ path = "cqm"
    /\ model' = build_cqm(W, C, n, p, a)
    /\ pc' = "built"
    /\ UNCHANGED <<path, n, W, C, p, a, ss, sample_dict, cost_dict, ordered, pos,
                   prev_val, counter, filenames, frames, disk>>

\* sampler.sample_dqm: the solver returns any candidates
SampleDqm ==
    /\ pc = "built" /\ path = "dqm"
    /\ \E got \in BoundedSeq(Assignments(n), MaxSamples) : ss' = got
    /\ pc' = "sampled"
    /\ UNCHANGED <<path, n, W, C, p, a, model, sample_dict, cost_dict, ordered, pos,
                   prev_val, counter, filenames, frames, disk>>

\* sampler.sample_cqm, then sampleset.filter(lambda d: d.is_feasible).  The
\* solver returns any 0/1 samples and the filter keeps the feasible ones in
\* order: from at most MaxSamples samples it can leave exactly the lists of at
\* most MaxSamples feasible samples.
SampleCqm ==
    /\ pc = "built" /\ path = "cqm"
    /\ \E got \in BoundedSeq({x \in Matrices(n, {0, 1}) : is_feasible(model, x, n)},
                              MaxSamples) : ss' = got
    /\ pc' = "sampled"
    /\ UNCHANGED <<path, n, W, C, p, a, model, sample_dict, cost_dict, ordered, pos,
                   prev_val, counter, filenames, frames, disk>>

\* demo-dqm.py: the get_cost loop and the sort
InterpretDqm ==
    /\ pc = "sampled" /\ path = "dqm"
    /\ LET cd == ForRange(LAMBDA d, index:
                            get_cost(index, ss[index + 1], a, W, C, d, n),
                          <<>>, 0, Len(ss))
       IN  /\ cost_dict' = cd
           /\ ordered' = ordered_samples(cd, Len(ss))
    /\ pc' = "loop"
    /\ UNCHANGED <<path, n, W, C, p, a, model, ss, sample_dict, pos, prev_val,
                   counter, filenames, frames, disk>>

\* demo_cqm.py: cost_dict, sample_dict and the sort
InterpretCqm ==
    /\ pc = "sampled" /\ path = "cqm"
    /\ LET cd == [index \in 0 .. (Len(ss) - 1) |->
                    QmEnergy(model.objective, ss[index + 1], n)]
       IN  /\ cost_dict' = cd
           /\ ordered' = ordered_samples(cd, Len(ss))
    /\ sample_dict' = [index \in 0 .. (Len(ss) - 1) |-> DecodeSample(ss[index + 1], n)]
    /\ pc' = "loop"
    /\ UNCHANGED <<path, n, W, C, p, a, model, ss, pos, prev_val, counter,
                   filenames, frames, disk>>

\* demo-dqm.py: one pass of the loop over ordered_samples
LoopStepDqm ==
    /\ pc = "loop" /\ path = "dqm" /\ pos < Len(ordered)
    /\ LET key == ordered[pos + 1]
           val == cost_dict[key]
           lay == get_layout_from_sample(ss[key + 1], p, n)
       IN  /\ IF KeepCandidate(lay, counter, prev_val, val)
              THEN /\ filenames' = visualize_results(filenames, counter)
                   /\ frames' = Append(frames, [key |-> key, cost |-> cost_dict[key],
                                                hubs |-> lay.hubs, legs |-> lay.legs])
                   /\ disk' = disk \cup {FrameFile(counter)}
                   /\ counter' = counter + 1
              ELSE UNCHANGED <<filenames, frames, disk, counter>>
           /\ prev_val' = val
    /\ pos' = pos + 1
    /\ UNCHANGED <<path, pc, n, W, C, p, a, model, ss, sample_dict, cost_dict, ordered>>

\* demo_cqm.py: one pass of the loop over ordered_samples
LoopStepCqm ==
    /\ pc = "loop" /\ path = "cqm" /\ pos < Len(ordered)
    /\ LET key == ordered[pos + 1]
           val == cost_dict[key]
           lay == cqm_get_layout_from_sample(sample_dict[key], n)
       IN  /\ filenames' = visualize_results(filenames, counter)
           /\ frames' = Append(frames, [key |-> key, cost |-> cost_dict[key],
                                        hubs |-> lay.hubs, legs |-> lay.legs])
           /\ disk' = disk \cup {FrameFile(counter)}
           /\ counter' = counter + 1
           /\ prev_val' = val
    /\ pos' = pos + 1
    /\ UNCHANGED <<path, pc, n, W, C, p, a, model, ss, sample_dict, cost_dict, ordered>>

\* demo_cqm.py: plt.imread(filenames[-1]) ... plt.savefig("best_soln_found.png")
SaveBestCqm ==
    /\ pc = "loop" /\ path = "cqm" /\ pos = Len(ordered)
    /\ IF filenames = <<>>
       THEN /\ pc' = "fault"
            /\ UNCHANGED disk
       ELSE /\ pc' = "gif"
            /\ disk' = disk \cup {BestFile}
    /\ UNCHANGED <<path, n, W, C, p, a, model, ss, sample_dict, cost_dict, ordered,
                   pos, prev_val, counter, filenames, frames>>

\* demo-dqm.py: the writer appends every frame, then filenames[-1] twenty times
BuildGifDqm ==
    /\ pc = "loop" /\ path = "dqm" /\ pos = Len(ordered)
    /\ IF filenames = <<>>
       THEN /\ pc' = "fault"
            /\ disk' \in {disk, disk \cup {GifFile}}
       ELSE /\ pc' = "cleanup"
            /\ disk' = disk \cup {GifFile}
    /\ UNCHANGED <<path, n, W, C, p, a, model, ss, sample_dict, cost_dict, ordered,
                   pos, prev_val, counter, filenames, frames>>

\* demo_cqm.py: the writer appends every frame, then best_soln_found.png
BuildGifCqm ==
    /\ pc = "gif" /\ path = "cqm"
    /\ pc' = "cleanup"
    /\ disk' = disk \cup {GifFile}
    /\ UNCHANGED <<path, n, W, C, p, a, model, ss, sample_dict, cost_dict, ordered,
                   pos, prev_val, counter, filenames, frames>>

\* for filename in set(filenames): os.remove(filename)
RemoveFiles ==
    /\ pc = "cleanup"
    /\ disk' = disk \ {filenames[k] : k \in 1 .. Len(filenames)}
    /\ pc' = "done"
    /\ UNCHANGED <<path, n, W, C, p, a, model, ss, sample_dict, cost_dict, ordered,
                   pos, prev_val, counter, filenames, frames>>

Next ==
    \/ BuildDqm
    \/ BuildCqm
    \/ SampleDqm
    \/ SampleCqm
    \/ InterpretDqm
    \/ InterpretCqm
    \/ LoopStepDqm
    \/ LoopStepCqm
    \/ SaveBestCqm
    \/ BuildGifDqm
    \/ BuildGifCqm
    \/ RemoveFiles

Spec == Init /\ [][Next]_vars

---------------------------------------------------------------------------
(* build_cqm alone, on more cities *)

\* the entries of m that are not zero
Support(m, nn) == {v \in Vars(nn) : m[v[1]][v[2]] # 0}

SparseMatrices(nn, vals, k) ==
    {m \in Matrices(nn, vals) : Cardinality(Support(m, nn)) <= k}

\* the inputs of the CQM path of Init, and the inputs on WideCityCounts cities
\* whose flow and cost matrices have at most MaxLegs entries that are not zero
InitBuild ==
    /\ path = "cqm"
    /\ \/ /\ n \in CityCounts
          /\ W \in {m \in Matrices(n, FlowVals) : Total(m, n) > 0}
          /\ C \in Matrices(n, CostVals)
       \/ /\ n \in WideCityCounts
          /\ W \in {m \in SparseMatrices(n, FlowVals, MaxLegs) : Total(m, n) > 0}
          /\ C \in SparseMatrices(n, CostVals, MaxLegs)
    /\ p \in 1 .. (n + 1)
    /\ a \in Discounts
    /\ pc = "start"
    /\ model = None
    /\ ss = <<>>
    /\ sample_dict = <<>>
    /\ cost_dict = <<>>
    /\ ordered = <<>>
    /\ pos = 0
    /\ prev_val = None
    /\ counter = 0
    /\ filenames = <<>>
    /\ frames = <<>>
    /\ disk = {}

SpecBuild == InitBuild /\ [][BuildCqm]_vars

---------------------------------------------------------------------------
(* Properties *)

\* the cost of section 4.1: every ordered pair (i, j) pays its flow times the
\* two legs to the hubs and the discounted leg between the hubs
GroundTruthCost(Wm, Cm, nn, aa, s) ==
    SumPairs(LAMBDA i, j:
               Wm[i][j] * (ADen * Cm[i][s[i]] + ADen * Cm[j][s[j]] + aa * Cm[s[i]][s[j]]),
             LAMBDA i: 0, nn)

\* every city has exactly one indicator set
IsOneHot(x, nn) ==
    \A i \in Cities(nn) : Cardinality({k \in Cities(nn) : x[i][k] = 1}) = 1

\* assign(i) of a one-hot indicator matrix
AssignOf(x, nn) == [i \in Cities(nn) |-> CHOOSE k \in Cities(nn) : x[i][k] = 1]

SelfAssigned(s, nn) == {i \in Cities(nn) : s[i] = i}

\* every non-hub city points to a self-assigned city
HubsAreHubs(s, nn) == \A i \in Cities(nn) : s[i] # i => s[s[i]] = s[i]

\* the invariant of a valid candidate (section 3)
ValidCandidate(s, nn, pp) ==
    HubsAreHubs(s, nn) /\ Cardinality(SelfAssigned(s, nn)) = pp

\* the verdict of demo-dqm.py's get_layout_from_sample on a mapping
JudgedValid(s, pp, nn) ==
    LET lay == get_layout_from_sample(s, pp, nn)
    IN  ~lay.fault /\ lay.valid

\* the loop over ordered_samples has ended
LoopEnded == pc \in {"loop", "gif", "cleanup", "done", "fault"} /\ pos = Len(ordered)

\* C1 (as claimed): on the DQM path get_cost stores in cost_dict[index] the
\* ground-truth cost of candidate index, summed over every ordered pair (i, j).
C1_GetCostIsGroundTruth ==
    path = "dqm" =>
        \A index \in DOMAIN cost_dict :
            cost_dict[index] = GroundTruthCost(W, C, n, a, ss[index + 1])

\* C2 (as claimed): after the objective loop of build_dqm the energy of every
\* complete assignment is its ground-truth cost.
C2_DqmObjectiveIsGroundTruth ==
    (path = "dqm" /\ pc = "built") =>
        \A s \in Assignments(n) :
            DqmEnergy(DqmObjective(W, C, n, a), s, n) = GroundTruthCost(W, C, n, a, s)

\* C3: the objective set by build_cqm gives every one-hot indicator matrix the
\* ground-truth cost of the assignment it encodes.
C3_CqmObjectiveIsGroundTruth ==
    (path = "cqm" /\ pc = "built") =>
        \A x \in Matrices(n, {0, 1}) :
            IsOneHot(x, n) =>
                QmEnergy(model.objective, x, n)
                    = GroundTruthCost(W, C, n, a, AssignOf(x, n))

\* build_cqm has run on three cities with flow between two of them and an
\* objective that has linear and quadratic terms, and an assignment with two hubs
\* and a spoke costs something
C3_Witness ==
    /\ path = "cqm" /\ pc = "built" /\ n \in WideCityCounts
    /\ \E i, j \in Cities(n) : i # j /\ W[i][j] > 0
    /\ \E v \in Vars(n) : model.objective.lin[v] > 0
    /\ \E q \in DOMAIN model.objective.quad : model.objective.quad[q] > 0
    /\ \E x \in Matrices(n, {0, 1}) :
         /\ IsOneHot(x, n)
         /\ Cardinality(SelfAssigned(AssignOf(x, n), n)) = 2
         /\ HubsAreHubs(AssignOf(x, n), n)
         /\ QmEnergy(model.objective, x, n) > 0

\* C4: on the DQM path every candidate handed to visualize_results has every
\* non-hub city assigned to a self-assigned city and exactly p self-assigned
\* cities.
C4_RenderedAreValid ==
    path = "dqm" =>
        \A k \in 1 .. Len(frames) : ValidCandidate(ss[frames[k].key + 1], n, p)

\* the loop has rendered a candidate with a spoke and has passed over one whose
\* spoke points to a non-hub and one with the wrong number of hubs
C4_Witness ==
    /\ path = "dqm" /\ LoopEnded
    /\ \E k \in 1 .. Len(frames) : frames[k].legs # <<>>
    /\ \E t \in 1 .. Len(ss) : ~HubsAreHubs(ss[t], n)
    /\ \E t \in 1 .. Len(ss) :
         HubsAreHubs(ss[t], n) /\ Cardinality(SelfAssigned(ss[t], n)) # p

\* C5: in both pipelines every frame handed to visualize_results costs at most
\* as much as every frame rendered before it.
C5_FramesNonIncreasing ==
    \A j, k \in 1 .. Len(frames) : j < k => frames[k].cost <= frames[j].cost

\* the CQM path rendered two frames of different cost, the later one for the
\* candidate the solver returned first
C5_Witness ==
    /\ path = "cqm" /\ Len(frames) >= 2
    /\ frames[2].cost < frames[1].cost
    /\ frames[2].key < frames[1].key

\* C6 (as claimed): with more hubs asked for than there are cities, neither
\* pipeline ends in an uncaught fault.
C6_NoFaultWhenTooManyHubs ==
    p > n => pc # "fault"

\* C7 (as claimed): on the DQM path, when the solver returned a valid candidate,
\* the last frame shows a valid candidate of the least cost among the valid ones.
C7_LastFrameIsBestValid ==
    (path = "dqm" /\ LoopEnded
        /\ \E t \in 1 .. Len(ss) : ValidCandidate(ss[t], n, p)) =>
        /\ frames # <<>>
        /\ ValidCandidate(ss[frames[Len(frames)].key + 1], n, p)
        /\ \A t \in 1 .. Len(ss) :
             ValidCandidate(ss[t], n, p) =>
                 frames[Len(frames)].cost <= cost_dict[t - 1]

\* C8 (as claimed): on the DQM path a candidate that passes the validity checks
\* and that the loop has consumed was rendered, or costs what a rendered
\* candidate costs.
C8_SuppressedOnlyOnKeptCost ==
    path = "dqm" =>
        \A t \in 1 .. pos :
            ValidCandidate(ss[ordered[t] + 1], n, p) =>
                \E k \in 1 .. Len(frames) : frames[k].cost = cost_dict[ordered[t]]

\* what the constraint terms of build_dqm add to the energy of an assignment
PenaltyEnergy(s) ==
    DqmEnergy(build_dqm(W, C, n, p, a), s, n)
        - DqmEnergy(DqmObjective(W, C, n, a), s, n)

\* C9 (as claimed): among the assignments whose non-hubs all point to hubs, the
\* constraint terms give those with exactly p hubs strictly less energy than
\* those with any other number of hubs.
C9_PenaltyLowestAtPHubs ==
    (path = "dqm" /\ pc = "built") =>
        \A s, t \in Assignments(n) :
            ( /\ HubsAreHubs(s, n) /\ HubsAreHubs(t, n)
              /\ Cardinality(SelfAssigned(s, n)) = p
              /\ Cardinality(SelfAssigned(t, n)) # p )
            => PenaltyEnergy(s) < PenaltyEnergy(t)

\* C10 (as claimed): a 0/1 indicator matrix satisfies every constraint of
\* build_cqm exactly when get_layout_from_sample of the DQM path judges its
\* decoded mapping valid.
C10_SameAccepted_AnyMatrix ==
    (path = "cqm" /\ pc = "built") =>
        \A x \in Matrices(n, {0, 1}) :
            is_feasible(model, x, n) <=> JudgedValid(DecodeSample(x, n), p, n)

\* C10 (amended): a 0/1 indicator matrix that is one-hot per city satisfies
\* every constraint of build_cqm exactly when get_layout_from_sample of the DQM
\* path judges its decoded mapping valid.
C10_SameAccepted_OneHot ==
    (path = "cqm" /\ pc = "built") =>
        \A x \in Matrices(n, {0, 1}) :
            IsOneHot(x, n) =>
                (is_feasible(model, x, n) <=> JudgedValid(DecodeSample(x, n), p, n))

\* build_cqm has run on three cities; one one-hot matrix with a spoke is
\* feasible and judged valid, another is infeasible and judged invalid because
\* its spoke points to a non-hub
C10_Witness ==
    /\ path = "cqm" /\ pc = "built" /\ n \in WideCityCounts
    /\ \E x \in Matrices(n, {0, 1}) :
         /\ IsOneHot(x, n) /\ \E i \in Cities(n) : x[i][i] = 0
         /\ is_feasible(model, x, n)
         /\ JudgedValid(DecodeSample(x, n), p, n)
    /\ \E x \in Matrices(n, {0, 1}) :
         /\ IsOneHot(x, n) /\ ~HubsAreHubs(AssignOf(x, n), n)
         /\ ~is_feasible(model, x, n)
         /\ ~JudgedValid(DecodeSample(x, n), p, n)

\* the frame files the run has written so far
FramesWritten == {filenames[k] : k \in 1 .. Len(filenames)}

\* every kept candidate has its own file, the k-th one named <k - 1>.png
OwnNumberedFiles ==
    /\ Len(filenames) = Len(frames)
    /\ \A k \in 1 .. Len(filenames) : filenames[k] = <<"png", k - 1>>
    /\ \A j, k \in 1 .. Len(filenames) : j # k => filenames[j] # filenames[k]

\* the run has ended with frames rendered: no written frame file is left and
\* the animation is there
EndedClean ==
    (pc = "done" /\ frames # <<>>) =>
        (FramesWritten \cap disk = {} /\ GifFile \in disk)

\* a step that renders a frame writes one file that the run had not written
\* before; a step that deletes a written frame file is taken after the writer of
\* the animation has finished, with the animation on disk; the animation is
\* never deleted
LifecycleStep ==
    /\ Len(frames') > Len(frames) =>
          \E f \in {<<"png", k>> : k \in 0 .. MaxSamples} :
              /\ f \notin FramesWritten
              /\ filenames' = Append(filenames, f)
              /\ disk' = disk \cup {f}
    /\ (\E f \in FramesWritten : f \in disk /\ f \notin disk') =>
          (pc = "cleanup" /\ GifFile \in disk)
    /\ GifFile \in disk => GifFile \in disk'

\* C11: in both pipelines, on a run that renders at least one frame, each kept
\* candidate is written to its own distinct numbered frame file and none is
\* overwritten, no frame file is deleted before airline-hubs.gif has been
\* written completely, and when the run has ended every written frame file is
\* deleted and the animation remains.
C11_FrameFileLifecycle ==
    /\ [](OwnNumberedFiles /\ EndedClean)
    /\ [][LifecycleStep]_vars

\* a DQM run has ended after rendering two frames and skipping a candidate: the
\* frames were 0.png and 1.png, both are deleted and the animation is on disk
C11_Witness ==
    /\ path = "dqm" /\ pc = "done"
    /\ Len(frames) = 2 /\ Len(ordered) = 3
    /\ filenames = <<FrameFile(0), FrameFile(1)>>
    /\ FramesWritten \cap disk = {}
    /\ GifFile \in disk

====
